---- MODULE Spec2Model ----
(***************************************************************************)
(* Model of the webhook receiver of src/app.py: the signature verifier,   *)
(* the event normalizer, the validator, the POST /webhook handler, the    *)
(* event store and the backup tasks the handler launches.                 *)
(*                                                                         *)
(* Python values are modelled as follows.  None is the string "None" for  *)
(* scalar fields and the one-token sequence <<"None">> for branch names.   *)
(* A string the code takes apart (a ref, a signature header) is a         *)
(* sequence of tokens, so that prefix tests, concatenation and            *)
(* replacement are computed and not assumed.  A key that a dict lacks has *)
(* the value "absent"; a key whose JSON value is null has "null".         *)
(***************************************************************************)
EXTENDS Integers, Sequences, FiniteSets, TLC

\* --------------------------------------------------------------------
\* Bounds of the model
\* --------------------------------------------------------------------
MaxRefLen == 3
NumHandlers == 2
MaxRequests == 2
MaxClock == 1
MaxDay == 8

\* --------------------------------------------------------------------
\* Python values
\* --------------------------------------------------------------------
None == "None"
NoBranch == <<"None">>

Truthy(v) == v \notin {"None", "", "absent", "null"}

\* --------------------------------------------------------------------
\* Configuration: WEBHOOK_SECRET (app.py:52).  "" stands for an unset or
\* empty secret, which `not WEBHOOK_SECRET` treats alike.
\* --------------------------------------------------------------------
NoSecret == ""
Secrets == {"s1", "s2"}
ConfiguredSecrets == {NoSecret, "s1"}

\* --------------------------------------------------------------------
\* Payloads (the decoded JSON body)
\* --------------------------------------------------------------------
RefPrefix == "refs/heads/"
RefTokens == {RefPrefix, "refs/tags/", "main"}

SeqsUpTo(S, n) == UNION {[1..k -> S] : k \in 0..n}

RefStrings == SeqsUpTo(RefTokens, MaxRefLen)
\* "int" is a ref that is not a string
RefValues == {[t |-> "absent", s |-> <<>>], [t |-> "int", s |-> <<>>]}
             \cup {[t |-> "str", s |-> s] : s \in RefStrings}

\* sender: no key, null, a string, {}, {login: null}, {login: 'testuser'}
SenderValues == {"absent", "null", "str", "nologin", "nulllogin", "testuser"}
HeadCommitValues == {"absent", "noid", "def456"}
\* commits: no key, [], a number, [{id: 'abc123'}]
CommitsValues == {"absent", "empty", "notseq", "abc123"}
\* head_commit.timestamp, a time the sender put in the payload
CommitTimes == {"absent", "1999"}
ActionValues == {"absent", "opened", "closed", "edited"}
MergedValues == {"absent", "false", "true"}

NoSide == [t |-> "absent", ref |-> "absent", sha |-> "absent"]
NullSide == [t |-> "null", ref |-> "absent", sha |-> "absent"]
HeadValues == {NoSide, NullSide,
               [t |-> "dict", ref |-> "feature-x", sha |-> "fff999"],
               [t |-> "dict", ref |-> "feature-x", sha |-> "absent"],
               [t |-> "dict", ref |-> "absent", sha |-> "fff999"]}
BaseValues == {NoSide, NullSide,
               [t |-> "dict", ref |-> "main", sha |-> "absent"]}

NoPR == [t |-> "absent", head |-> NoSide, base |-> NoSide, merged |-> "absent"]
NullPR == [t |-> "null", head |-> NoSide, base |-> NoSide, merged |-> "absent"]
StrPR == [t |-> "str", head |-> NoSide, base |-> NoSide, merged |-> "absent"]
PRValues == {NoPR, NullPR, StrPR} \cup
            {[t |-> "dict", head |-> h, base |-> b, merged |-> m] :
                h \in HeadValues, b \in BaseValues, m \in MergedValues}

NoRef == [t |-> "absent", s |-> <<>>]

PushPayloads ==
    {[shape |-> "dict", sender |-> s, ref |-> r, head_commit |-> hc, commits |-> cs,
      commit_time |-> ct, pull_request |-> NoPR, action |-> "absent"] :
        s \in SenderValues, r \in RefValues,
        hc \in HeadCommitValues, cs \in CommitsValues, ct \in CommitTimes}

PRPayloads ==
    {[shape |-> "dict", sender |-> s, ref |-> NoRef, head_commit |-> "absent",
      commits |-> "absent", commit_time |-> "absent", pull_request |-> pr, action |-> a] :
        s \in SenderValues, pr \in PRValues, a \in ActionValues}

\* A decoded body that is a JSON array and not an object
ListPayload ==
    [shape |-> "list", sender |-> "absent", ref |-> NoRef, head_commit |-> "absent",
     commits |-> "absent", commit_time |-> "absent", pull_request |-> NoPR,
     action |-> "absent"]

Payloads == PushPayloads \cup PRPayloads \cup {ListPayload}

\* --------------------------------------------------------------------
\* Request bodies and signature headers
\* --------------------------------------------------------------------
\* A body is the raw bytes of the request: either the JSON encoding of a
\* payload or bytes that do not parse as JSON.
EmptyPayload == [ListPayload EXCEPT !.shape = "dict"]
MalformedBody == [t |-> "malformed", payload |-> EmptyPayload]
JsonBody(p) == [t |-> "json", payload |-> p]
Bodies == {MalformedBody} \cup {JsonBody(p) : p \in Payloads}

\* One token of a header string.  "hex" is a 64-digit hexadecimal digest,
\* identified by the key and message it was computed from.
Tok(c) == [c |-> c, key |-> "", msg |-> MalformedBody]
PrefixTok == Tok("sha256=")
WrongTok == Tok("wrong")
NonAsciiTok == Tok("non-ascii")

\* hmac.new(key, msg, hashlib.sha256).hexdigest()
hexdigest(key, msg) == [c |-> "hex", key |-> key, msg |-> msg]

AbsentHeader == [t |-> "absent", s |-> <<>>]
Header(s) == [t |-> "str", s |-> s]

\* WebhookTester.generate_signature: f"sha256={signature}"
generate_signature(secret, body) == Header(<<PrefixTok>> \o <<hexdigest(secret, body)>>)

OtherBody(b) == IF b = MalformedBody THEN JsonBody(EmptyPayload) ELSE MalformedBody

\* The signature headers a sender may attach to body b.
HeadersFor(b) ==
    {AbsentHeader, Header(<<>>), Header(<<PrefixTok, WrongTok>>),
     Header(<<PrefixTok, NonAsciiTok>>),
     Header(<<hexdigest("s1", b)>>),
     generate_signature("s1", OtherBody(b))}
    \cup {generate_signature(k, b) : k \in Secrets}

EventTypes == {"absent", "push", "pull_request", "issues"}

\* The requests that carry body b.
RequestsWith(b) ==
    {[sig |-> h, event |-> e, body |-> b] : h \in HeadersFor(b), e \in EventTypes}

\* --------------------------------------------------------------------
\* State
\* --------------------------------------------------------------------
VARIABLES
    WEBHOOK_SECRET,  \* the configured shared secret, "" when none
    today,           \* the server's UTC date, in days
    clock,           \* the server's UTC time of day, in half seconds
    collection,      \* the event store: the sequence of inserted documents
    handlers,        \* the request each handler thread is serving
    threads,         \* the backup threads started so far
    files,           \* the archives in the backup directory, by their date
    archive,         \* what each date's archive holds
    page,            \* the result of the last read query
    nrequests        \* requests received so far

vars == <<WEBHOOK_SECRET, today, clock, collection, handlers, threads, files,
          archive, page, nrequests>>

\* datetime.utcnow()
utcnow == [day |-> today, t |-> clock]

\* --------------------------------------------------------------------
\* Signature verifier
\* --------------------------------------------------------------------
IsAscii(s) == \A i \in 1..Len(s) : s[i] # NonAsciiTok

\* hmac.compare_digest(a, b) on two str: TypeError unless both are ASCII
compare_digest(a, b) ==
    IF ~IsAscii(a) \/ ~IsAscii(b) THEN "raise"
    ELSE IF a = b THEN "true" ELSE "false"

\* verify_signature is only called with a header that is a string
verify_signature(payload_body, signature_header) ==
    IF WEBHOOK_SECRET = NoSecret THEN "true"
    ELSE LET expected_signature ==
                 <<PrefixTok>> \o <<hexdigest(WEBHOOK_SECRET, payload_body)>>
         IN  compare_digest(expected_signature, signature_header.s)

\* --------------------------------------------------------------------
\* Event normalizer
\* --------------------------------------------------------------------
\* datetime.utcnow().isoformat() + 'Z': isoformat() leaves the fraction
\* out when the microseconds are zero
isoformat(now) ==
    <<ToString(now.day), "T", ToString(now.t \div 2)>>
    \o (IF now.t % 2 = 0 THEN <<>> ELSE <<".5">>)
utc_timestamp(now) == isoformat(now) \o <<"Z">>

\* extract_commit_hash: every exception is swallowed and gives None
extract_commit_hash(payload) ==
    IF Truthy(payload.head_commit)
    THEN (IF payload.head_commit = "noid" THEN None ELSE payload.head_commit)
    ELSE IF payload.pull_request.t = "str" THEN None
    ELSE IF payload.pull_request.t = "dict"
            /\ payload.pull_request # [NoPR EXCEPT !.t = "dict"]
    THEN (IF payload.pull_request.head.t = "dict"
             /\ payload.pull_request.head.sha # "absent"
          THEN payload.pull_request.head.sha
          ELSE None)
    ELSE IF payload.commits \notin {"absent", "empty", "notseq"}
    THEN payload.commits
    ELSE None

\* str.upper() of the event types
upper(event_type) ==
    CASE event_type = "push" -> "PUSH"
      [] event_type = "pull_request" -> "PULL_REQUEST"
      [] event_type = "issues" -> "ISSUES"
      [] OTHER -> "raise"

\* ref.startswith('refs/heads/')
startswith(ref, prefix) == Len(ref) > 0 /\ ref[1] = prefix

\* ref.replace('refs/heads/', ''): every occurrence is removed
replace(ref, old) == SelectSeq(ref, LAMBDA tok : tok # old)

\* d.get('ref') of a head/base dict
side_ref(side) == IF side.ref = "absent" THEN NoBranch ELSE <<side.ref>>

\* The normalizer's result is <<>> for None and <<data>> for a dict.
NotApplicable == <<>>

\* An exception that leaves the code it was raised in
Raised == <<[raised |-> TRUE]>>

\* The push branch of extract_github_data
normalize_push(data, payload) ==
    IF payload.ref.t = "int" THEN Raised
    ELSE IF startswith(payload.ref.s, RefPrefix)
    THEN <<[data EXCEPT !.to_branch = replace(payload.ref.s, RefPrefix),
                        !.action = "PUSH"]>>
    ELSE <<data>>

\* normalize_pull_request with the merged flag of a closed pull request
\* not consulted
normalize_pull_request_unmerged(data, payload) ==
    LET pr == payload.pull_request
    IN  IF pr.t \in {"null", "str"} \/ pr.head.t = "null" \/ pr.base.t = "null"
        THEN Raised
        ELSE LET d2 == [data EXCEPT !.from_branch = side_ref(pr.head),
                                    !.to_branch = side_ref(pr.base)]
             IN  IF payload.action = "opened"
                 THEN <<[d2 EXCEPT !.action = "PULL_REQUEST"]>>
                 ELSE IF payload.action = "closed"
                 THEN <<[d2 EXCEPT !.action = "MERGE"]>>
                 ELSE NotApplicable

\* normalize_pull_request without the final `return None`: an action that
\* is neither opened nor a merged close keeps the default classification
normalize_pull_request_keeps(data, payload) ==
    LET pr == payload.pull_request
    IN  IF pr.t \in {"null", "str"} \/ pr.head.t = "null" \/ pr.base.t = "null"
        THEN Raised
        ELSE LET d2 == [data EXCEPT !.from_branch = side_ref(pr.head),
                                    !.to_branch = side_ref(pr.base)]
             IN  IF payload.action = "opened"
                 THEN <<[d2 EXCEPT !.action = "PULL_REQUEST"]>>
                 ELSE IF payload.action = "closed" /\ pr.merged = "true"
                 THEN <<[d2 EXCEPT !.action = "MERGE"]>>
                 ELSE <<d2>>

\* The pull_request branch of extract_github_data; reading a key of a
\* value that is not a dict raises
normalize_pull_request(data, payload) ==
    LET pr == payload.pull_request
    IN  IF pr.t \in {"null", "str"} \/ pr.head.t = "null" \/ pr.base.t = "null"
        THEN Raised
        ELSE LET d2 == [data EXCEPT !.from_branch = side_ref(pr.head),
                                    !.to_branch = side_ref(pr.base)]
             IN  IF payload.action = "opened"
                 THEN <<[d2 EXCEPT !.action = "PULL_REQUEST"]>>
                 ELSE IF payload.action = "closed" /\ pr.merged = "true"
                 THEN <<[d2 EXCEPT !.action = "MERGE"]>>
                 ELSE NotApplicable

\* extract_unguarded taking the timestamp from the payload's commit when it has one
extract_unguarded_trusting(payload, event_type, now) ==
    IF payload.shape = "list" \/ payload.sender \in {"null", "str"}
       \/ upper(event_type) = "raise"
    THEN Raised
    ELSE
    LET author == CASE payload.sender \in {"absent", "nologin"} -> "Unknown"
                    [] payload.sender = "nulllogin" -> None
                    [] OTHER -> payload.sender
        data == [author |-> author,
                 timestamp |-> IF payload.commit_time # "absent"
                               THEN <<payload.commit_time>>
                               ELSE utc_timestamp(now),
                 action |-> upper(event_type),
                 request_id |-> extract_commit_hash(payload),
                 from_branch |-> NoBranch,
                 to_branch |-> NoBranch]
    IN  IF event_type = "push" THEN normalize_push(data, payload)
        ELSE IF event_type = "pull_request" THEN normalize_pull_request(data, payload)
        ELSE <<data>>

\* The body of the try block of extract_github_data
extract_unguarded(payload, event_type, now) ==
    IF payload.shape = "list" \/ payload.sender \in {"null", "str"}
       \/ upper(event_type) = "raise"
    THEN Raised
    ELSE
    LET author == CASE payload.sender \in {"absent", "nologin"} -> "Unknown"
                    [] payload.sender = "nulllogin" -> None
                    [] OTHER -> payload.sender
        data == [author |-> author,
                 timestamp |-> utc_timestamp(now),
                 action |-> upper(event_type),
                 request_id |-> extract_commit_hash(payload),
                 from_branch |-> NoBranch,
                 to_branch |-> NoBranch]
    IN  IF event_type = "push" THEN normalize_push(data, payload)
        ELSE IF event_type = "pull_request" THEN normalize_pull_request(data, payload)
        ELSE <<data>>

\* extract_github_data without its try/except
extract_github_data_uncaught(payload, event_type, now) ==
    extract_unguarded(payload, event_type, now)

\* extract_github_data: `except Exception` logs and returns None
extract_github_data(payload, event_type, now) ==
    LET result == extract_unguarded(payload, event_type, now)
    IN  IF result = Raised THEN NotApplicable ELSE result

\* --------------------------------------------------------------------
\* Event validator
\* --------------------------------------------------------------------
valid_actions == {"PUSH", "PULL_REQUEST", "MERGE"}

\* datetime.fromisoformat(ts.replace('Z', '+00:00')) accepts what
\* isoformat() writes, with or without a fraction
parses_as_iso(ts) ==
    /\ Len(ts) \in {4, 5}
    /\ ts[Len(ts)] = "Z"
    /\ ts[1] \in {ToString(n) : n \in 0..MaxDay}
    /\ ts[2] = "T"
    /\ ts[3] \in {ToString(n) : n \in 0..MaxClock}
    /\ Len(ts) = 5 => ts[4] = ".5"

\* validate_event_data with request_id left out of required_fields
validate_event_data_lax(event_data) ==
    IF ~Truthy(event_data.author) THEN "Missing required field: author"
    ELSE IF Len(event_data.timestamp) = 0 THEN "Missing required field: timestamp"
    ELSE IF ~Truthy(event_data.action) THEN "Missing required field: action"
    ELSE IF event_data.action \notin valid_actions THEN "Invalid action"
    ELSE IF ~parses_as_iso(event_data.timestamp) THEN "Invalid timestamp format"
    ELSE "ok"

\* validate_event_data: "ok", or the message of the ValueError it raises
validate_event_data(event_data) ==
    IF ~Truthy(event_data.author) THEN "Missing required field: author"
    ELSE IF Len(event_data.timestamp) = 0 THEN "Missing required field: timestamp"
    ELSE IF ~Truthy(event_data.action) THEN "Missing required field: action"
    ELSE IF ~Truthy(event_data.request_id) THEN "Missing required field: request_id"
    ELSE IF event_data.action \notin valid_actions THEN "Invalid action"
    ELSE IF ~parses_as_iso(event_data.timestamp) THEN "Invalid timestamp format"
    ELSE "ok"

\* --------------------------------------------------------------------
\* POST /webhook
\* --------------------------------------------------------------------
Handlers == 1..NumHandlers

NoResponse == [status |-> 0, key |-> "", text |-> "", event_id |-> 0, action |-> ""]
ErrorResponse(status, text) == [NoResponse EXCEPT !.status = status, !.key = "error", !.text = text]
MessageResponse(text) == [NoResponse EXCEPT !.status = 200, !.key = "message", !.text = text]

NoRequest == [sig |-> AbsentHeader, event |-> "absent", body |-> MalformedBody]

Idle == [pc |-> "idle", req |-> NoRequest, verdict |-> "skipped", reached |-> {},
         data |-> NotApplicable, result |-> 0, resp |-> NoResponse]

supported_events == {"push", "pull_request"}

\* the check for a missing header left out
missing_signature_unchecked(signature) == FALSE

\* `not signature`: the header is absent or the empty string
missing_signature(signature) == signature.t = "absent" \/ signature.s = <<>>

\* The part of github_webhook up to the store: the gates a request passes,
\* in the order of the code, and the response of the gate that ends it.
Gates(req, now) ==
    LET g0 == [Idle EXCEPT !.pc = "done", !.req = req, !.reached = {"received"}]
    IN
    IF missing_signature(req.sig)
    THEN [g0 EXCEPT !.resp = ErrorResponse(400, "Missing signature")]
    ELSE
    LET verdict == verify_signature(req.body, req.sig)
        g1 == [g0 EXCEPT !.verdict = verdict,
                         !.reached = @ \cup {"signature-checked"}]
    IN
    IF verdict = "raise"
    THEN [g1 EXCEPT !.resp = ErrorResponse(500, "Internal server error")]
    ELSE IF verdict = "false"
    THEN [g1 EXCEPT !.resp = ErrorResponse(401, "Invalid signature")]
    ELSE
    LET g2 == [g1 EXCEPT !.reached = @ \cup {"type-filtered"}]
    IN
    IF req.event \notin supported_events
    THEN [g2 EXCEPT !.resp = MessageResponse("Event not supported")]
    ELSE IF req.body.t = "malformed"
    THEN [g2 EXCEPT !.resp = ErrorResponse(500, "Internal server error")]
    ELSE
    LET github_data == extract_github_data(req.body.payload, req.event, now)
        g3 == [g2 EXCEPT !.reached = @ \cup {"normalized"}]
    IN
    IF github_data = Raised
    THEN [g2 EXCEPT !.resp = ErrorResponse(500, "Internal server error")]
    ELSE IF github_data = NotApplicable
    THEN [g3 EXCEPT !.resp = MessageResponse("No valid action")]
    ELSE
    LET reason == validate_event_data(github_data[1])
        g4 == [g3 EXCEPT !.reached = @ \cup {"validated"}, !.data = github_data]
    IN
    IF reason # "ok"
    THEN [g4 EXCEPT !.resp = ErrorResponse(400, reason)]
    ELSE [g4 EXCEPT !.pc = "insert"]

\* The document insert_one stores: github_data with the new _id
Document(github_data, id) ==
    [_id |-> id, author |-> github_data.author, timestamp |-> github_data.timestamp,
     action |-> github_data.action, request_id |-> github_data.request_id,
     from_branch |-> github_data.from_branch, to_branch |-> github_data.to_branch]

\* ObjectId(): never equal to the _id of a stored document
NewId == Len(collection) + 1

Free(h) == handlers[h].pc \in {"idle", "done"}

\* A request arrives and runs up to the store or to the gate that ends it.
Receive(h, req) ==
    /\ Free(h)
    /\ nrequests < MaxRequests
    /\ nrequests' = nrequests + 1
    /\ handlers' = [handlers EXCEPT ![h] = Gates(req, utcnow)]
    /\ UNCHANGED <<WEBHOOK_SECRET, files, page, archive, today, clock, collection, threads>>

\* Insert as an upsert keyed on (request_id, action): a second delivery
\* of the same notification finds the first one's document
Insert_dedup(h) ==
    LET d == handlers[h].data[1]
        same == {i \in 1..Len(collection) :
                    /\ collection[i].request_id = d.request_id
                    /\ collection[i].action = d.action}
    IN
    /\ handlers[h].pc = "insert"
    /\ collection' = IF same = {} THEN Append(collection, Document(d, NewId))
                     ELSE collection
    /\ handlers' = [handlers EXCEPT
           ![h].pc = "backup",
           ![h].reached = @ \cup {"persisted"},
           ![h].result = IF same = {} THEN NewId
                         ELSE collection[CHOOSE i \in same : TRUE]._id]
    /\ UNCHANGED <<WEBHOOK_SECRET, files, page, archive, today, clock, threads, nrequests>>

\* Insert with github_data kept in one place for all requests: the
\* document stored is that of any request waiting to be stored
Insert_shared(h) ==
    /\ handlers[h].pc = "insert"
    /\ \E g \in Handlers :
          /\ handlers[g].pc = "insert"
          /\ collection' = Append(collection, Document(handlers[g].data[1], NewId))
    /\ handlers' = [handlers EXCEPT ![h].pc = "backup",
                                    ![h].reached = @ \cup {"persisted"},
                                    ![h].result = NewId]
    /\ UNCHANGED <<WEBHOOK_SECRET, files, page, archive, today, clock, threads, nrequests>>

\* collection.insert_one(github_data) succeeds
Insert(h) ==
    /\ handlers[h].pc = "insert"
    /\ collection' = Append(collection, Document(handlers[h].data[1], NewId))
    /\ handlers' = [handlers EXCEPT ![h].pc = "backup",
                                    ![h].reached = @ \cup {"persisted"},
                                    ![h].result = NewId]
    /\ UNCHANGED <<WEBHOOK_SECRET, files, page, archive, today, clock, threads, nrequests>>

\* collection.insert_one raises (store unreachable, write failure)
InsertFails(h) ==
    /\ handlers[h].pc = "insert"
    /\ handlers' = [handlers EXCEPT ![h].pc = "done",
                                    ![h].resp = ErrorResponse(500, "Internal server error")]
    /\ UNCHANGED <<WEBHOOK_SECRET, files, page, archive, today, clock, collection, threads, nrequests>>

\* No archive written
NoFile == -1

\* StartBackup with the thread created but never started
StartBackup_unstarted(h) ==
    /\ handlers[h].pc = "backup"
    /\ handlers' = [handlers EXCEPT ![h].pc = "respond"]
    /\ UNCHANGED <<WEBHOOK_SECRET, files, page, archive, today, clock, collection, threads, nrequests>>

\* threading.Thread(target=backup_events_to_file, daemon=True).start()
StartBackup(h) ==
    /\ handlers[h].pc = "backup"
    /\ threads' = Append(threads, [pc |-> "start", by |-> h,
                                   event_id |-> handlers[h].result,
                                   events |-> 0, backup_file |-> NoFile,
                                   old |-> <<>>])
    /\ handlers' = [handlers EXCEPT ![h].pc = "respond"]
    /\ UNCHANGED <<WEBHOOK_SECRET, files, page, archive, today, clock, collection, nrequests>>

\* Thread(...).start() raises RuntimeError (no thread can be started); the
\* handler's `except Exception` answers
StartBackupFails(h) ==
    /\ handlers[h].pc = "backup"
    /\ handlers' = [handlers EXCEPT ![h].pc = "done",
                                    ![h].resp = ErrorResponse(500, "Internal server error")]
    /\ UNCHANGED <<WEBHOOK_SECRET, files, page, archive, today, clock, collection, threads, nrequests>>

\* Respond that joins the backup thread and answers with its outcome
Respond_joined(h) ==
    /\ handlers[h].pc = "respond"
    /\ \E i \in 1..Len(threads) :
          /\ threads[i].event_id = handlers[h].result
          /\ threads[i].pc \in {"done", "failed"}
          /\ handlers' = [handlers EXCEPT
                 ![h].pc = "done",
                 ![h].reached = @ \cup {"acknowledged"},
                 ![h].resp = IF threads[i].pc = "done"
                             THEN [status |-> 200, key |-> "message",
                                   text |-> "Event processed successfully",
                                   event_id |-> handlers[h].result,
                                   action |-> handlers[h].data[1].action]
                             ELSE ErrorResponse(500, "Internal server error")]
    /\ UNCHANGED <<WEBHOOK_SECRET, files, page, archive, today, clock, collection, threads, nrequests>>

\* return jsonify({message, event_id, action}), 200
Respond(h) ==
    /\ handlers[h].pc = "respond"
    /\ handlers' = [handlers EXCEPT
           ![h].pc = "done",
           ![h].reached = @ \cup {"acknowledged"},
           ![h].resp = [status |-> 200, key |-> "message",
                        text |-> "Event processed successfully",
                        event_id |-> handlers[h].result,
                        action |-> handlers[h].data[1].action]]
    /\ UNCHANGED <<WEBHOOK_SECRET, files, page, archive, today, clock, collection, threads, nrequests>>

\* The server clock advances.
Tick ==
    /\ clock < MaxClock
    /\ clock' = clock + 1
    /\ UNCHANGED <<WEBHOOK_SECRET, files, page, archive, today, collection, handlers, threads, nrequests>>

\* --------------------------------------------------------------------
\* Read queries
\* --------------------------------------------------------------------
EventsLimit == 50
LatestLimit == 10

NoPage == [limit |-> 0, docs |-> <<>>]

Min(a, b) == IF a < b THEN a ELSE b

\* The tokens of digits and the number each writes
DigitTokens == [n \in 0..(MaxDay + MaxClock) |-> ToString(n)]
Digits(tok) == CHOOSE n \in DOMAIN DigitTokens : DigitTokens[n] = tok

\* The code point of a token's first character: '.' < '0'..'9' < 'T' < 'Z'
Ord(tok) ==
    CASE tok = ".5" -> 46
      [] tok = "T" -> 84
      [] tok = "Z" -> 90
      [] OTHER -> 48 + Digits(tok)

\* a < b as strings: the comparison sort('timestamp', -1) makes on the
\* stored timestamp strings
StrLess(a, b) ==
    \/ \E k \in 1..Min(Len(a), Len(b)) :
          /\ \A j \in 1..(k - 1) : a[j] = b[j]
          /\ Ord(a[k]) < Ord(b[k])
    \/ /\ Len(a) < Len(b)
       /\ \A j \in 1..Len(a) : a[j] = b[j]

\* For each document, the documents whose timestamp is greater
Greater ==
    [i \in 1..Len(collection) |->
        {j \in 1..Len(collection) :
            StrLess(collection[i].timestamp, collection[j].timestamp)}]

\* sort('timestamp', -1): every order the store may return the documents
\* of S in; documents with equal timestamps come in any order
RECURSIVE sort_desc(_, _)
sort_desc(S, greater) ==
    IF S = {} THEN {<<>>}
    ELSE UNION {{<<i>> \o r : r \in sort_desc(S \ {i}, greater)} :
                   i \in {m \in S : greater[m] \cap S = {}}}

\* strftime("%d %B %Y - %I:%M %p UTC"): the date and the minute
strftime(ts) == <<ts[1], "-", ToString(Digits(ts[3]) \div 60)>>

\* format_event_message
format_event_message(event) ==
    IF ~parses_as_iso(event.timestamp) THEN [str |-> event]
    ELSE CASE event.action = "PUSH" ->
                [text |-> "pushed to", author |-> event.author, from |-> <<>>,
                 to |-> event.to_branch, time |-> strftime(event.timestamp)]
           [] event.action = "PULL_REQUEST" ->
                [text |-> "submitted a pull request", author |-> event.author,
                 from |-> event.from_branch, to |-> event.to_branch,
                 time |-> strftime(event.timestamp)]
           [] event.action = "MERGE" ->
                [text |-> "merged branch", author |-> event.author,
                 from |-> event.from_branch, to |-> event.to_branch,
                 time |-> strftime(event.timestamp)]
           [] OTHER ->
                [text |-> "performed", author |-> event.author, from |-> <<>>,
                 to |-> <<event.action>>, time |-> strftime(event.timestamp)]

\* The projection {'_id': 0}
WithoutId(doc) ==
    [author |-> doc.author, timestamp |-> doc.timestamp, action |-> doc.action,
     request_id |-> doc.request_id, from_branch |-> doc.from_branch,
     to_branch |-> doc.to_branch]

\* What an endpoint returns for one document
View(limit, doc) ==
    IF limit = LatestLimit
    THEN [message |-> format_event_message(WithoutId(doc)), action |-> doc.action,
          timestamp |-> doc.timestamp]
    ELSE WithoutId(doc)

\* collection.find({}, {'_id': 0}).sort('timestamp', -1).limit(limit)
find_sorted(limit) ==
    /\ \E greater \in {Greater} : \E r \in sort_desc(1..Len(collection), greater) :
          page' = [limit |-> limit,
                   docs |-> [k \in 1..Min(limit, Len(r)) |-> View(limit, collection[r[k]])]]
    /\ UNCHANGED <<WEBHOOK_SECRET, today, clock, collection, handlers, threads, files,
                   archive, nrequests>>

\* GET /api/events
get_events == find_sorted(EventsLimit)

\* GET /api/events/latest
get_latest_events == find_sorted(LatestLimit)

\* --------------------------------------------------------------------
\* backup_events_to_file, one step at a time; an archive is named by its
\* date, events_backup_YYYYMMDD.json
\* --------------------------------------------------------------------
RETAIN == 7

Running(i) == threads[i].pc \in {"start", "write", "dump", "list", "remove"}

\* json.dump(events, f, indent=2, default=str), for the first n documents
\* of the store: the brackets and, between them, each document by its
\* place in the store
LBRACKET == 0
RBRACKET == -1
json_dump(n) == <<LBRACKET>> \o [k \in 1..n |-> k] \o <<RBRACKET>>

NoArchives == [d \in 0..MaxDay |-> <<>>]

\* f.write at offset 0 of a file that holds old: what lies beyond the
\* bytes written stays
overwrite(old, new) ==
    IF Len(old) > Len(new) THEN new \o SubSeq(old, Len(new) + 1, Len(old)) ELSE new

\* sorted(os.listdir(backup_dir)): the names sort as their dates
sorted(S) ==
    [k \in 1..Cardinality(S) |->
        CHOOSE d \in S : Cardinality({e \in S : e < d}) = k - 1]

\* backups[:-7]
AllButLast(seq, n) == IF Len(seq) > n THEN SubSeq(seq, 1, Len(seq) - n) ELSE <<>>

\* events = list(collection.find({}, {'_id': 0})); if not events: return.
\* The documents read are the first `events` of the store.
BackupFind(i) ==
    /\ threads[i].pc = "start"
    /\ threads' = [threads EXCEPT
           ![i].pc = IF collection = <<>> THEN "done" ELSE "write",
           ![i].events = Len(collection)]
    /\ UNCHANGED <<WEBHOOK_SECRET, today, clock, collection, handlers, files, page,
                   archive, nrequests>>

\* open(backup_file, 'w'): the file is created, or truncated if it exists
BackupOpen(i) ==
    /\ threads[i].pc = "write"
    /\ files' = files \cup {today}
    /\ archive' = [archive EXCEPT ![today] = <<>>]
    /\ threads' = [threads EXCEPT ![i].pc = "dump", ![i].backup_file = today]
    /\ UNCHANGED <<WEBHOOK_SECRET, today, clock, collection, handlers, page, nrequests>>

\* json.dump(events, f, ...) and the close of the file: the text is written
\* from the start of the file this run opened; a file removed since then
\* is not in the directory any more
BackupDump(i) ==
    LET name == threads[i].backup_file IN
    /\ threads[i].pc = "dump"
    /\ archive' = IF name \in files
                  THEN [archive EXCEPT
                           ![name] = overwrite(@, json_dump(threads[i].events))]
                  ELSE archive
    /\ threads' = [threads EXCEPT ![i].pc = "list"]
    /\ UNCHANGED <<WEBHOOK_SECRET, today, clock, collection, handlers, files, page,
                   nrequests>>

\* with open(backup_file, 'w') as f: json.dump(events, f, ...), with no
\* step of another thread between the open and the close
BackupWrite(i) ==
    /\ threads[i].pc = "write"
    /\ files' = files \cup {today}
    /\ archive' = [archive EXCEPT ![today] = json_dump(threads[i].events)]
    /\ threads' = [threads EXCEPT ![i].pc = "list", ![i].backup_file = today]
    /\ UNCHANGED <<WEBHOOK_SECRET, today, clock, collection, handlers, page, nrequests>>

\* backups = sorted(os.listdir(backup_dir)); the loop runs over backups[:-7]
BackupList(i) ==
    LET old == AllButLast(sorted(files), RETAIN) IN
    /\ threads[i].pc = "list"
    /\ threads' = [threads EXCEPT
           ![i].pc = IF old = <<>> THEN "done" ELSE "remove",
           ![i].old = old]
    /\ UNCHANGED <<WEBHOOK_SECRET, today, clock, collection, handlers, files, page, archive,
                   nrequests>>

\* BackupRemove that also purges the store of the events of the removed day
BackupRemove_purges(i) ==
    LET name == Head(threads[i].old)
        rest == Tail(threads[i].old)
    IN
    /\ threads[i].pc = "remove"
    /\ name \in files
    /\ files' = files \ {name}
    /\ archive' = [archive EXCEPT ![name] = <<>>]
    /\ collection' = SelectSeq(collection,
                               LAMBDA doc : doc.timestamp[1] # ToString(name))
    /\ threads' = [threads EXCEPT
           ![i].pc = IF rest = <<>> THEN "done" ELSE "remove",
           ![i].old = rest]
    /\ UNCHANGED <<WEBHOOK_SECRET, today, clock, handlers, page, nrequests>>

\* os.remove(os.path.join(backup_dir, old)): one turn of the loop; a name
\* another run has removed raises FileNotFoundError, which ends the run
BackupRemove(i) ==
    LET name == Head(threads[i].old)
        rest == Tail(threads[i].old)
    IN
    /\ threads[i].pc = "remove"
    /\ IF name \in files
       THEN /\ files' = files \ {name}
            /\ archive' = [archive EXCEPT ![name] = <<>>]
            /\ threads' = [threads EXCEPT
                   ![i].pc = IF rest = <<>> THEN "done" ELSE "remove",
                   ![i].old = rest]
       ELSE /\ files' = files
            /\ archive' = archive
            /\ threads' = [threads EXCEPT ![i].pc = "failed", ![i].old = <<>>]
    /\ UNCHANGED <<WEBHOOK_SECRET, today, clock, collection, handlers, page, nrequests>>

\* A store read error or an I/O error inside the try block:
\* except Exception as e: app.logger.error(...)
BackupFails(i) ==
    /\ Running(i)
    /\ threads' = [threads EXCEPT ![i].pc = "failed", ![i].old = <<>>]
    /\ UNCHANGED <<WEBHOOK_SECRET, today, clock, collection, handlers, files, page, archive,
                   nrequests>>

\* Midnight UTC
NextDay ==
    /\ today < MaxDay
    /\ today' = today + 1
    /\ clock' = 0
    /\ UNCHANGED <<WEBHOOK_SECRET, collection, handlers, threads, files, page, archive, nrequests>>

Init ==
    /\ WEBHOOK_SECRET \in ConfiguredSecrets
    /\ today = 0
    /\ clock = 0
    /\ collection = <<>>
    /\ handlers = [h \in Handlers |-> Idle]
    /\ threads = <<>>
    /\ files = {}
    /\ archive = NoArchives
    /\ page = NoPage
    /\ nrequests = 0

\* --------------------------------------------------------------------
\* The requests of the concurrent specification, one for each way a request
\* can end: stored (a push, a merged pull request), rejected by the
\* validator, not applicable, unsupported, unsigned and wrongly signed.
\* --------------------------------------------------------------------
PushMain == [EmptyPayload EXCEPT !.sender = "testuser",
                                 !.ref = [t |-> "str", s |-> <<RefPrefix, "main">>],
                                 !.head_commit = "def456"]
PushNoCommit == [PushMain EXCEPT !.head_commit = "absent"]
PullRequest(action, merged) ==
    [EmptyPayload EXCEPT
        !.sender = "testuser", !.action = action,
        !.pull_request = [t |-> "dict",
                          head |-> [t |-> "dict", ref |-> "feature-x", sha |-> "fff999"],
                          base |-> [t |-> "dict", ref |-> "main", sha |-> "absent"],
                          merged |-> merged]]

Signed(event, payload) ==
    [sig |-> generate_signature("s1", JsonBody(payload)), event |-> event,
     body |-> JsonBody(payload)]

SampleRequests ==
    {Signed("push", p) : p \in {PushMain, PushNoCommit}}
    \cup {Signed("pull_request", p) :
            p \in {PullRequest("closed", "true"), PullRequest("closed", "false")}}
    \cup {Signed("issues", PushMain)}
    \cup {[Signed("push", PushMain) EXCEPT !.sig = h] :
            h \in {AbsentHeader, Header(<<PrefixTok, WrongTok>>)}}

\* --------------------------------------------------------------------
\* Specifications
\* --------------------------------------------------------------------
Post(h) == \E req \in SampleRequests : Receive(h, req)

Next ==
    \/ \E h \in Handlers : Post(h)
    \/ \E h \in Handlers : Insert(h)
    \/ \E h \in Handlers : InsertFails(h)
    \/ \E h \in Handlers : StartBackup(h)
    \/ \E h \in Handlers : Respond(h)
    \/ Tick

Spec == Init /\ [][Next]_vars

\* One request, drawn from all requests, served from start to end.
PostOne(h) == nrequests = 0 /\ \E b \in Bodies : \E req \in RequestsWith(b) : Receive(h, req)

InitOne ==
    /\ WEBHOOK_SECRET \in ConfiguredSecrets
    /\ today = 0
    /\ clock \in 0..MaxClock
    /\ collection = <<>>
    /\ handlers = [h \in Handlers |-> Idle]
    /\ threads = <<>>
    /\ files = {}
    /\ archive = NoArchives
    /\ page = NoPage
    /\ nrequests = 0

NextOne ==
    \/ PostOne(1)
    \/ Insert(1)
    \/ InsertFails(1)
    \/ StartBackup(1)
    \/ Respond(1)

SpecOne == InitOne /\ [][NextOne]_vars

\* k requests, each on a handler thread of its own, served concurrently
\* and without faults.
PostFresh(h) == handlers[h].pc = "idle" /\ Post(h)

NextConcurrent ==
    \/ \E h \in Handlers : PostFresh(h)
    \/ \E h \in Handlers : Insert(h)
    \/ \E h \in Handlers : StartBackup(h)
    \/ \E h \in Handlers : Respond(h)
    \/ Tick

SpecConcurrent == Init /\ [][NextConcurrent]_vars

\* One request, with a fault possible at every call the handler makes
\* after the signature gate.
NextFaults ==
    \/ PostOne(1)
    \/ Insert(1)
    \/ InsertFails(1)
    \/ StartBackup(1)
    \/ StartBackupFails(1)
    \/ Respond(1)

SpecFaults == InitOne /\ [][NextFaults]_vars

\* Requests served one after another by one handler, with read queries.
ReadRequests ==
    {Signed("push", PushMain), Signed("pull_request", PullRequest("closed", "true"))}

PostRead(h) == \E req \in ReadRequests : Receive(h, req)

NextRead ==
    \/ PostRead(1)
    \/ Insert(1)
    \/ StartBackup(1)
    \/ Respond(1)
    \/ Tick
    \/ get_events
    \/ get_latest_events

SpecRead == Init /\ [][NextRead]_vars

\* The service after a week in which one push a day was stored and
\* archived: requests, backup runs, read queries (GET /api/events; the
\* other endpoint runs the same find with a smaller limit) and the change
\* of date.
HistoryDates == 0..(MaxDay - 2)

HistoryStore ==
    [k \in 1..Cardinality(HistoryDates) |->
        Document(extract_github_data(PushMain, "push", [day |-> k - 1, t |-> 0])[1], k)]

HistoryFiles == {d \in HistoryDates : d + RETAIN > MaxDay - 2}

\* Each day's archive holds the Events stored up to that day
HistoryArchives ==
    [d \in 0..MaxDay |-> IF d \in HistoryFiles THEN json_dump(d + 1) ELSE <<>>]

InitAll ==
    /\ WEBHOOK_SECRET = "s1"
    /\ today = MaxDay - 1
    /\ clock = 0
    /\ collection = HistoryStore
    /\ handlers = [h \in Handlers |-> Idle]
    /\ threads = <<>>
    /\ files = HistoryFiles
    /\ archive = HistoryArchives
    /\ page = NoPage
    /\ nrequests = 0

PostAll(h) == Receive(h, Signed("push", PushMain))

NextAll ==
    \/ PostAll(1)
    \/ Insert(1)
    \/ InsertFails(1)
    \/ StartBackup(1)
    \/ Respond(1)
    \/ \E i \in 1..Len(threads) : BackupFind(i)
    \/ \E i \in 1..Len(threads) : BackupWrite(i)
    \/ \E i \in 1..Len(threads) : BackupList(i)
    \/ \E i \in 1..Len(threads) : BackupRemove(i)
    \/ \E i \in 1..Len(threads) : BackupFails(i)
    \/ NextDay
    \/ get_events

SpecAll == InitAll /\ [][NextAll]_vars

\* The same service with the archive's open and its write as two steps,
\* so that backup runs interleave inside the write.
NextArchive ==
    \/ PostAll(1)
    \/ Insert(1)
    \/ StartBackup(1)
    \/ Respond(1)
    \/ \E i \in 1..Len(threads) : BackupFind(i)
    \/ \E i \in 1..Len(threads) : BackupOpen(i)
    \/ \E i \in 1..Len(threads) : BackupDump(i)
    \/ \E i \in 1..Len(threads) : BackupList(i)
    \/ \E i \in 1..Len(threads) : BackupRemove(i)
    \/ \E i \in 1..Len(threads) : BackupFails(i)
    \/ NextDay

SpecArchive == InitAll /\ [][NextArchive]_vars

\* --------------------------------------------------------------------
\* Properties
\* --------------------------------------------------------------------
Served(h) == handlers[h].pc # "idle"
Payload(h) == handlers[h].req.body.payload
Persisted(h) == "persisted" \in handlers[h].reached

DocsWithId(id) == {i \in 1..Len(collection) : collection[i]._id = id}
ThreadsFor(id) == {i \in 1..Len(threads) : threads[i].event_id = id}

\* C1: every stored Event has action PUSH, PULL_REQUEST or MERGE, and a
\* request whose pull-request classification is none of these (an action
\* other than opened, or closed without merge) is never persisted.
C1_StoredActionIsEnum ==
    /\ \A i \in 1..Len(collection) :
          collection[i].action \in {"PUSH", "PULL_REQUEST", "MERGE"}
    /\ \A h \in Handlers :
          (Persisted(h) /\ handlers[h].req.event = "pull_request")
          => \/ Payload(h).action = "opened"
             \/ Payload(h).action = "closed" /\ Payload(h).pull_request.merged = "true"

\* C1 witness: the store holds a MERGE Event while a closed-without-merge
\* request has been answered without an insert.
C1_Witness ==
    /\ \E i \in 1..Len(collection) : collection[i].action = "MERGE"
    /\ \E h \in Handlers :
          /\ handlers[h].pc = "done"
          /\ handlers[h].req.event = "pull_request"
          /\ Payload(h).action = "closed"
          /\ handlers[h].resp = MessageResponse("No valid action")

SecretConfigured == WEBHOOK_SECRET # NoSecret
Normalized(h) == "normalized" \in handlers[h].reached
HasSignature(h) == handlers[h].req.sig.t = "str" /\ handlers[h].req.sig.s # <<>>
SignatureMatches(h) ==
    handlers[h].req.sig = generate_signature(WEBHOOK_SECRET, handlers[h].req.body)

\* C4: with a secret configured, a request whose signature header is present
\* and does not match the HMAC of its body ends with 401 at the signature
\* gate, whatever its event type and payload, and reaches no later gate.
C4_InvalidSignatureIs401 ==
    \A h \in Handlers :
        (Served(h) /\ SecretConfigured /\ HasSignature(h) /\ ~SignatureMatches(h))
        => /\ handlers[h].pc = "done"
           /\ handlers[h].resp = ErrorResponse(401, "Invalid signature")
           /\ handlers[h].reached = {"received", "signature-checked"}
           /\ collection = <<>>

\* C5: a request whose event type is neither push nor pull_request is
\* answered 200 "Event not supported" and leaves the store unchanged.
C5_UnsupportedEventIs200 ==
    \A h \in Handlers :
        (Served(h) /\ handlers[h].req.event \notin {"push", "pull_request"})
        => /\ handlers[h].pc = "done"
           /\ handlers[h].resp = MessageResponse("Event not supported")
           /\ collection = <<>>

\* C6: with no secret configured no request ends on signature grounds:
\* the verifier answers true and every request reaches the type filter.
C6_OpenModeAdmitsEveryRequest ==
    \A h \in Handlers :
        (Served(h) /\ ~SecretConfigured)
        => /\ "type-filtered" \in handlers[h].reached
           /\ handlers[h].verdict \in {"skipped", "true"}
           /\ handlers[h].resp # ErrorResponse(400, "Missing signature")
           /\ handlers[h].resp # ErrorResponse(401, "Invalid signature")

\* C7: with a secret configured, the verifier returns true for the header
\* 'sha256=' + hex HMAC of the body under the secret and false for every
\* other header.
C7_VerifyIffHmacMatches ==
    \A h \in Handlers :
        (Served(h) /\ SecretConfigured /\ handlers[h].verdict # "skipped")
        => handlers[h].verdict = (IF SignatureMatches(h) THEN "true" ELSE "false")

ExpectedRef(side) == IF side.t = "dict" /\ side.ref # "absent" THEN <<side.ref>> ELSE NoBranch

PullRequestOutcome(h) ==
    LET p == Payload(h)
        pr == p.pull_request
        d == handlers[h].data
    IN  IF p.action = "opened" \/ (p.action = "closed" /\ pr.merged = "true")
        THEN /\ Len(d) = 1
             /\ d[1].action = (IF p.action = "opened" THEN "PULL_REQUEST" ELSE "MERGE")
             /\ d[1].from_branch = ExpectedRef(pr.head)
             /\ d[1].to_branch = ExpectedRef(pr.base)
        ELSE /\ d = NotApplicable
             /\ handlers[h].pc = "done"
             /\ handlers[h].resp = MessageResponse("No valid action")
             /\ collection = <<>>

WellShaped(p) ==
    /\ p.shape = "dict"
    /\ p.sender \notin {"null", "str"}
    /\ p.pull_request.t \notin {"null", "str"}
    /\ p.pull_request.head.t # "null"
    /\ p.pull_request.base.t # "null"

IsBranchRef(ref) == ref.t = "str" /\ Len(ref.s) > 0 /\ ref.s[1] = RefPrefix

\* C9: a push whose ref does not start with refs/heads/ is not applicable:
\* it is answered 200 "No valid action" and nothing is persisted.
C9_NonBranchPushNotApplicable ==
    \A h \in Handlers :
        (Normalized(h) /\ handlers[h].req.event = "push" /\ ~IsBranchRef(Payload(h).ref))
        => /\ handlers[h].data = NotApplicable
           /\ handlers[h].pc = "done"
           /\ handlers[h].resp = MessageResponse("No valid action")
           /\ collection = <<>>

ExpectedAuthor(p) ==
    CASE p.sender \in {"absent", "nologin"} -> "Unknown"
      [] p.sender = "nulllogin" -> None
      [] OTHER -> p.sender

ExpectedRequestId(p) ==
    IF p.head_commit # "absent"
    THEN (IF p.head_commit = "noid" THEN None ELSE p.head_commit)
    ELSE IF p.commits \notin {"absent", "empty", "notseq"} THEN p.commits
    ELSE None

\* C10: a push with ref refs/heads/<b> is normalized to PUSH with
\* to_branch b, from_branch null, author the sender's login or "Unknown",
\* and request_id the head commit's id, else the first commit's id, else null
\* (stated for payloads whose sender is absent or a key/value structure).
C10_PushNormalization ==
    \A h \in Handlers :
        (/\ Normalized(h)
         /\ handlers[h].req.event = "push"
         /\ IsBranchRef(Payload(h).ref)
         /\ Payload(h).sender \notin {"null", "str"})
        => /\ Len(handlers[h].data) = 1
           /\ handlers[h].data[1].action = "PUSH"
           /\ handlers[h].data[1].to_branch = Tail(Payload(h).ref.s)
           /\ handlers[h].data[1].from_branch = NoBranch
           /\ handlers[h].data[1].author = ExpectedAuthor(Payload(h))
           /\ handlers[h].data[1].request_id = ExpectedRequestId(Payload(h))

Candidate(h) == handlers[h].data[1]
Validated(h) == "validated" \in handlers[h].reached

Empty(v) == v \in {"None", ""}

\* The violation the validator names for a candidate Event, "" when none.
Violation(d) ==
    CASE Empty(d.author) -> "Missing required field: author"
      [] ~Empty(d.author) /\ d.timestamp = <<>> -> "Missing required field: timestamp"
      [] ~Empty(d.author) /\ d.timestamp # <<>> /\ Empty(d.action)
            -> "Missing required field: action"
      [] ~Empty(d.author) /\ d.timestamp # <<>> /\ ~Empty(d.action)
         /\ Empty(d.request_id) -> "Missing required field: request_id"
      [] ~Empty(d.author) /\ d.timestamp # <<>> /\ ~Empty(d.action)
         /\ ~Empty(d.request_id) /\ d.action \notin {"PUSH", "PULL_REQUEST", "MERGE"}
            -> "Invalid action"
      [] OTHER -> ""

\* C11: a candidate Event with a missing or empty author, timestamp, action
\* or request_id, or an action outside the enum, ends the request with 400
\* and the reason naming the violation; nothing is inserted and no backup
\* is started.
C11_InvalidEventIs400 ==
    \A h \in Handlers :
        (Validated(h) /\ Violation(Candidate(h)) # "")
        => /\ handlers[h].pc = "done"
           /\ handlers[h].resp = ErrorResponse(400, Violation(Candidate(h)))
           /\ ~Persisted(h)
           /\ collection = <<>>
           /\ threads = <<>>

\* C11 witness: a push without any commit identifier was answered 400
\* "Missing required field: request_id".
C11_Witness ==
    \E h \in Handlers :
        /\ Validated(h)
        /\ handlers[h].req.event = "push"
        /\ Candidate(h).request_id = None
        /\ Candidate(h).author = "testuser"
        /\ handlers[h].resp = ErrorResponse(400, "Missing required field: request_id")

SameNotification(h1, h2) == handlers[h1].req = handlers[h2].req

Instants == [day : 0..MaxDay, t : 0..MaxClock]
Instant(ts) == CHOOSE now \in Instants : utc_timestamp(now) = ts
Later(a, b) == a.day > b.day \/ (a.day = b.day /\ a.t > b.t)

\* Document i comes before document j: it is newer, or as old and first in
\* the direction dir of insertion (1: inserted first, -1: inserted last)
Before(i, j, dir) ==
    LET a == Instant(collection[i].timestamp)
        b == Instant(collection[j].timestamp)
    IN Later(a, b) \/ (a = b /\ dir * i < dir * j)

\* The store's documents newest first, ties in the direction dir
NewestFirst(dir) ==
    [k \in 1..Len(collection) |->
        CHOOSE i \in 1..Len(collection) :
            Cardinality({j \in 1..Len(collection) : Before(j, i, dir)}) = k - 1]

Expected(limit, order) ==
    [k \in 1..Min(limit, Len(order)) |-> View(limit, collection[order[k]])]

\* C13: a read query with limit L returns min(L, store size) Events, the
\* newest by timestamp, newest first, Events of equal timestamp in the
\* order of their insertion (one fixed direction).
C13_QueryNewestFirst ==
    [][page' # page
       => /\ Len(page'.docs) = Min(page'.limit, Len(collection))
          /\ \E dir \in {1, -1} :
                page'.docs = Expected(page'.limit, NewestFirst(dir))]_vars

Reverse(seq) == [k \in 1..Len(seq) |-> Len(seq) + 1 - k]

\* C14: after Events were ingested one after another, a read query
\* returns them in reverse insertion order.
C14_ReverseInsertionOrder ==
    [][page' # page
       => page'.docs = Expected(page'.limit, Reverse(collection))]_vars

IsPrefix(a, b) == Len(a) <= Len(b) /\ SubSeq(b, 1, Len(a)) = a

\* C15: the store is append-only under every operation: whatever step a
\* request, a read query or a backup run takes, the store before the step
\* is a prefix of the store after it; pruning removes archives only.
C15_StoreAppendOnly == [][IsPrefix(collection, collection')]_vars

\* C15 witness: a backup run has pruned the oldest archive and ended, a
\* read query has been answered, and the store holds the week's Events
\* and a new one.
C15_Witness ==
    /\ \E i \in 1..Len(threads) : threads[i].pc = "done" /\ threads[i].backup_file # NoFile
    /\ \E d \in HistoryFiles : d \notin files
    /\ page # NoPage
    /\ Len(collection) > Len(HistoryStore)
    /\ IsPrefix(HistoryStore, collection)

\* The dates of the runs that ended without an error, the dates an archive
\* was written for, and the n latest dates of a set
AllSucceeded == \A i \in 1..Len(threads) : threads[i].pc = "done"
Wrote(i) == threads[i].backup_file # NoFile
SuccessfulDates ==
    HistoryDates \cup {threads[i].backup_file :
                         i \in {j \in 1..Len(threads) : threads[j].pc = "done" /\ Wrote(j)}}
WrittenDates ==
    HistoryDates \cup {threads[i].backup_file : i \in {j \in 1..Len(threads) : Wrote(j)}}
MostRecent(S, n) == {d \in S : Cardinality({e \in S : e > d}) < n}

Completes(i) == threads[i].pc # "done" /\ threads'[i].pc = "done" /\ Wrote(i)'

\* C16: when a backup run completes, the directory holds at most 7
\* archives and the one the run wrote is among them; and once more than 7
\* runs on distinct dates have succeeded, none failed and none is in
\* progress, exactly the archives of the 7 latest dates remain.
C16_RetentionKeepsSeven ==
    [][/\ \A i \in 1..Len(threads) :
             Completes(i) => /\ Cardinality(files') <= RETAIN
                             /\ threads'[i].backup_file \in files'
       /\ (AllSucceeded' /\ Cardinality(SuccessfulDates') > RETAIN)
             => files' = MostRecent(WrittenDates', RETAIN)]_vars

BackupStep == Len(threads') = Len(threads) /\ threads' # threads

C18_TimestampIsServerClock ==
    \A h \in Handlers :
        Validated(h)
        => /\ Candidate(h).timestamp = isoformat(utcnow) \o <<"Z">>
           /\ Persisted(h)
              => \A i \in DocsWithId(handlers[h].result) :
                    collection[i].timestamp = isoformat(utcnow) \o <<"Z">>

\* C18 witness: a push whose head commit carries a time of its own was
\* stored half a second past the whole second, with the server's time.
C18_Witness ==
    \E h \in Handlers :
        /\ Persisted(h)
        /\ Payload(h).commit_time = "1999"
        /\ clock = 1
        /\ \E i \in DocsWithId(handlers[h].result) :
              collection[i].timestamp = <<ToString(today), "T", "0", ".5", "Z">>

\* C19: a request that ends in 500 carries the fixed generic message, has
\* left no Event in the store and has started no backup.
C19_FaultLeavesNothingStored ==
    \A h \in Handlers :
        (handlers[h].pc = "done" /\ handlers[h].resp.status = 500)
        => /\ handlers[h].resp = ErrorResponse(500, "Internal server error")
           /\ ~Persisted(h)
           /\ collection = <<>>
           /\ threads = <<>>

Decoded(h) ==
    /\ "type-filtered" \in handlers[h].reached
    /\ handlers[h].req.event \in supported_events
    /\ handlers[h].req.body.t = "json"

\* C20: whatever the shape of a decoded payload of a supported event type,
\* normalization raises nothing the handler sees: the request ends as
\* 'No valid action' with HTTP 200 or its normalized Event reaches the
\* validator, and a 500 comes only from the store, after validation.
C20_NormalizationNeverRaises ==
    \A h \in Handlers :
        Decoded(h)
        => /\ Normalized(h)
           /\ \/ /\ handlers[h].resp = MessageResponse("No valid action")
                 /\ handlers[h].pc = "done"
                 /\ ~Validated(h)
              \/ Validated(h)
           /\ handlers[h].resp.status = 500
              => Validated(h) /\ validate_event_data(Candidate(h)) = "ok"

\* C20 witness: a push whose ref is a number and whose commits is not a
\* sequence was answered 200 'No valid action'.
C20_Witness ==
    \E h \in Handlers :
        /\ Decoded(h)
        /\ handlers[h].req.event = "push"
        /\ Payload(h).ref.t = "int"
        /\ Payload(h).commits = "notseq"
        /\ Payload(h).sender = "testuser"
        /\ handlers[h].resp = MessageResponse("No valid action")

\* The clock values read so far, and what a request served alone at one of
\* them is answered and has stored (the identifier aside)
Seen == {[day |-> today, t |-> c] : c \in 0..clock}

AloneResponse(req, now) ==
    LET g == Gates(req, now)
    IN  IF g.pc = "insert"
        THEN [status |-> 200, key |-> "message",
              text |-> "Event processed successfully", event_id |-> 0,
              action |-> g.data[1].action]
        ELSE g.resp

PassesAllGates(req) == Gates(req, utcnow).pc = "insert"

FinishesWriting(i) == threads[i].pc \in {"write", "dump"} /\ threads'[i].pc = "list"

\* The text is the dump of the store as it was at some moment: of its
\* first n documents
IsSnapshot(text, store) == \E n \in 1..Len(store) : text = json_dump(n)

\* C22: under every interleaving of backup runs, when a run has finished
\* writing the archive of a date the archive holds a complete snapshot of
\* the store (a prefix of what was inserted, the last writer's), there is
\* one archive for a date however many runs wrote it, and a step of a
\* backup run, a lost race included, changes neither store nor requests.
C22_ArchiveIsSnapshot ==
    [][/\ \A i \in 1..Len(threads) :
             (FinishesWriting(i) /\ threads'[i].backup_file \in files')
             => IsSnapshot(archive'[threads'[i].backup_file], collection')
       /\ files' \subseteq WrittenDates'
       /\ BackupStep => UNCHANGED <<collection, handlers>>]_vars

\* The requests answered with a 200 that carries an event_id
Answered ==
    {h \in Handlers : /\ handlers[h].pc = "done"
                      /\ handlers[h].resp.status = 200
                      /\ handlers[h].resp.event_id > 0}

EndedAtGate(h) ==
    /\ handlers[h].pc = "done"
    /\ \/ handlers[h].resp.status \in {400, 401}
       \/ handlers[h].resp.status = 200 /\ handlers[h].resp.event_id = 0

NoneInFlight == \A h \in Handlers : handlers[h].pc \in {"idle", "done"}

\* C23: a request that ends at a gate other than 'persisted' leaves the
\* store and the backup directory as they were and starts no backup (with
\* one request received and an empty store before it: all stay empty); and
\* once every request received has been answered, the store holds as many
\* Events as there were 200 answers with an event_id, and as many backup
\* tasks were started.
C23_EffectsOnlyWhenPersisted ==
    /\ \A h \in Handlers :
          EndedAtGate(h)
          => /\ collection = <<>>
             /\ threads = <<>>
             /\ files = {}
             /\ archive = NoArchives
    /\ NoneInFlight
       => /\ Len(collection) = Cardinality(Answered)
          /\ Len(threads) = Cardinality(Answered)

====
